---------------------------- MODULE Spec2Model ----------------------------
(***************************************************************************)
(* A model of examples/tutorial_regression_1.ipynb: the three-stage        *)
(* spiking network Net (an affine map followed by a leaky                  *)
(* integrate-and-fire cell, three times) and its forward pass over         *)
(* `timesteps` discrete steps.                                             *)
(*                                                                         *)
(* Tensor entries are exact rationals <<numerator, denominator>> in lowest *)
(* terms (the notebook computes in float32; the values used here, halves   *)
(* and quarters of small integers, are exact in both).  The batch holds    *)
(* one sample (batch_size = 1): a per-step input is one number, a tensor   *)
(* is a sequence of rationals, with Hidden entries in the hidden layers    *)
(* and one entry in the output layer.                                      *)
(*                                                                         *)
(* snn.Leaky itself (snntorch's neuron) is not among the source files; its *)
(* step and its constructor are modelled from section 4.1 and section 7 of *)
(* the specification.                                                      *)
(***************************************************************************)
EXTENDS Integers, Sequences, FiniteSets, TLC

VARIABLES
    \* ---- Net's fields (Net.__init__)
    timesteps,      \* self.timesteps
    fc_in,          \* self.fc_in      [weight, bias], 1 -> Hidden
    lif_in,         \* self.lif_in     [beta, threshold, reset_mechanism]
    fc_hidden,      \* self.fc_hidden  [weight, bias], Hidden -> Hidden
    lif_hidden,     \* self.lif_hidden [beta, threshold, reset_mechanism]
    fc_out,         \* self.fc_out     [weight, bias], Hidden -> 1
    li_out,         \* self.li_out     [beta, threshold, reset_mechanism]
    \* ---- one call of Net.forward
    pc,             \* "idle" | "loop" | "done" | "error"
    x,              \* the argument: one input per time step
    step,           \* the loop variable of `for step in range(self.timesteps)`
    mem_1, mem_2, mem_3,            \* the three membrane potentials
    cur_in, spk_in,                 \* locals of the loop body
    cur_hidden, spk_hidden,
    cur_out, spk_out,               \* spk_out is the discarded `_`
    mem_3_rec,      \* the list of recorded outputs
    result,         \* what the call returned (or the exception it raised)
    cur_out_rec,    \* history: the output stage's input current at each step
    seen,           \* history: one earlier finished call, or NoCall
    \* ---- a single Leaky cell driven on its own
    cell_req,       \* the reset_mechanism its constructor was given
    cell,           \* the constructed cell, or NoCell / ConfigError
    cell_mem0,      \* the potential it was started from
    cell_mem,       \* its potential now
    cell_spk,       \* its last spike
    cell_in,        \* the input currents fed so far
    cell_mem_rec,   \* the potential after each step
    \* ---- the training cell and the evaluation cell of the notebook
    dataset,        \* the batches the dataloader yields: [feature, label]
    tpc,            \* the statement the notebook is at
    epoch,          \* the iteration of `for _ in pbar`
    batch_idx,      \* how many batches the current iterator has yielded
    feature, label, \* the current batch
    mem_val,        \* mem = model(feature) (`mem` names a parameter here)
    loss_val,       \* [of, value]: the batch the loss is of, and its value
    grad,           \* the batches whose loss is accumulated in the .grad fields
    loss_hist,      \* the list loss_hist
    loss_epoch,     \* the list loss_epoch
    minibatch_counter,
    mean_L1,        \* the value printed as 'Mean L1-loss'
    ops,            \* history: the statements run so far for the current batch
    step_grad,      \* history: the gradient the last optimizer.step() used
    l1_vals         \* history: the L1 losses of the evaluation batches

netVars  == <<timesteps, fc_in, lif_in, fc_hidden, lif_hidden, fc_out, li_out>>
fwdVars  == <<pc, x, step, mem_1, mem_2, mem_3, cur_in, spk_in, cur_hidden,
              spk_hidden, cur_out, spk_out, mem_3_rec, result, cur_out_rec,
              seen>>
cellVars == <<cell_req, cell, cell_mem0, cell_mem, cell_spk, cell_in, cell_mem_rec>>
trainVars == <<dataset, tpc, epoch, batch_idx, feature, label, mem_val, loss_val,
               grad, loss_hist, loss_epoch, minibatch_counter, mean_L1, ops,
               step_grad, l1_vals>>
vars     == <<netVars, fwdVars, cellVars, trainVars>>

---------------------------------------------------------------------------
\* Bounds of the model.

\* Net is built with timesteps in 0..MaxT.
MaxT == 3
\* The number of hidden neurons (128 in the notebook).
Hidden == 2
\* A stand-alone cell is stepped at most MaxSteps times.
MaxSteps == 3
\* The training cell runs NumIter iterations (num_iter, 100 in the notebook)
\* over NumBatches batches (1 in the notebook) of TrainT time steps
\* (num_steps, 50 in the notebook).
NumIter == 2
NumBatches == 2
TrainT == 2

---------------------------------------------------------------------------
\* Exact rational arithmetic.

RECURSIVE GCD(_, _)
GCD(a, b) == IF b = 0 THEN a ELSE GCD(b, a % b)

Abs(a) == IF a < 0 THEN -a ELSE a

\* n/d in lowest terms, d > 0.
Rat(n, d) ==
    LET g == GCD(Abs(n), d)
    IN  <<n \div g, d \div g>>

Zero == <<0, 1>>
One  == <<1, 1>>
Half == <<1, 2>>
Quarter == <<1, 4>>
ThreeQuarters == <<3, 4>>
Two  == <<2, 1>>

RAdd(p, q) == Rat(p[1] * q[2] + q[1] * p[2], p[2] * q[2])
RSub(p, q) == Rat(p[1] * q[2] - q[1] * p[2], p[2] * q[2])
RMul(p, q) == Rat(p[1] * q[1], p[2] * q[2])
RGeq(p, q) == p[1] * q[2] >= q[1] * p[2]
\* p / k for an integer k > 0, and |p|.
RDivInt(p, k) == Rat(p[1], p[2] * k)
RAbs(p) == <<Abs(p[1]), p[2]>>

Neurons == 1..Hidden

\* A tensor is a sequence of rationals.  A hidden-layer tensor has Hidden
\* entries; the output layer's tensors, and the decay rate and threshold of
\* li_out, have one.

\* The hidden-layer tensor whose first entry is a and whose others are b.
Vec(a, b) == [i \in Neurons |-> IF i = 1 THEN a ELSE b]

\* Entry i of a tensor; a one-entry tensor broadcasts.
At(t, i) == IF Len(t) = 1 THEN t[1] ELSE t[i]

\* The sum over j in 1..n of w[j] * s[j].
RECURSIVE Dot(_, _, _)
Dot(w, s, n) == IF n = 0 THEN Zero ELSE RAdd(Dot(w, s, n - 1), RMul(w[n], s[n]))

---------------------------------------------------------------------------
\* snn.Leaky, from section 4.1 and section 7 of the specification.

ResetModes == {"subtract", "zero", "none"}

\* The reset mechanism of a cell built without the reset_mechanism argument.
DefaultResetMechanism == "subtract"

ConfigError == [error |-> "invalid-configuration"]
NoCell == [error |-> "not constructed"]

\* Mutant: the constructor takes any reset mode.
LeakyUnchecked(beta, threshold, reset_mechanism) ==
    [beta |-> beta, threshold |-> threshold, reset_mechanism |-> reset_mechanism]
\* snn.Leaky(beta, threshold, reset_mechanism): the cell, or the
\* configuration error for an unknown reset mode.
Leaky(beta, threshold, reset_mechanism) ==
    IF reset_mechanism \in ResetModes
    THEN [beta |-> beta, threshold |-> threshold,
          reset_mechanism |-> reset_mechanism]
    ELSE ConfigError

\* init_leaky(): the potential a forward pass starts from.
InitLeaky == <<Zero>>

\* candidate potential = beta * prev_potential + input_current
Candidate(beta, cur, mem) == RAdd(RMul(beta, mem), cur)

\* spike = 1 if the candidate potential reaches the threshold, else 0
Fire(cand, threshold) == IF RGeq(cand, threshold) THEN One ELSE Zero

StepError == <<-1, 0>>

\* Mutant: "zero" subtracts the threshold like "subtract".
ResetZeroSubtracts(mode, cand, threshold, spk) ==
    IF mode = "none" THEN cand ELSE RSub(cand, RMul(threshold, spk))
\* Mutant: "subtract" takes the threshold off whether or not the cell spiked.
ResetAlways(mode, cand, threshold, spk) ==
    CASE mode = "subtract" -> RSub(cand, threshold)
      [] mode = "zero"     -> RMul(cand, RSub(One, spk))
      [] OTHER             -> cand
\* new potential, by reset mode
ResetPotential(mode, cand, threshold, spk) ==
    CASE mode = "subtract" -> RSub(cand, RMul(threshold, spk))
      [] mode = "zero"     -> RMul(cand, RSub(One, spk))
      [] mode = "none"     -> cand
      [] OTHER             -> StepError

\* One neuron's step(input_current, prev_potential) -> [spk, mem].
LeakyNeuron(beta, threshold, mode, cur, mem) ==
    LET cand == Candidate(beta, cur, mem)
        spk  == Fire(cand, threshold)
    IN  [spk |-> spk, mem |-> ResetPotential(mode, cand, threshold, spk)]

\* The cell c applied to the tensors cur and mem, entry by entry:
\* c(cur, mem) -> [spk, mem], both of cur's shape.
LeakyForward(c, cur, mem) ==
    LET r == [i \in DOMAIN cur |->
                LeakyNeuron(At(c.beta, i), At(c.threshold, i),
                            c.reset_mechanism, cur[i], At(mem, i))]
    IN  [spk |-> [i \in DOMAIN cur |-> r[i].spk],
         mem |-> [i \in DOMAIN cur |-> r[i].mem]]

---------------------------------------------------------------------------
\* torch.nn.Linear: y = W x + b.

\* fc_in: 1 -> Hidden, applied to the one number of a time step
LinearIn(fc, xt) == [i \in Neurons |-> RAdd(RMul(fc.weight[i], xt), fc.bias[i])]

\* fc_hidden: Hidden -> Hidden
LinearHidden(fc, s) ==
    [i \in Neurons |-> RAdd(Dot(fc.weight[i], s, Hidden), fc.bias[i])]

\* fc_out: Hidden -> 1
LinearOut(fc, s) == <<RAdd(Dot(fc.weight, s, Hidden), fc.bias[1])>>

---------------------------------------------------------------------------
\* Net.__init__

\* The decay rates of li_out (torch.rand(1), in [0, 1)) and the values of an
\* input sequence the model draws from.
Betas == {<<Half>>, <<Quarter>>}
XVals == {Zero, One}

\* Mutants of li_out's reset mechanism: the argument left out (the default),
\* and "zero".
LiOutResetDefault == DefaultResetMechanism
LiOutResetZero == "zero"
\* reset_mechanism="none" of li_out
LiOutResetMechanism == "none"
\* threshold=1.0 of li_out
LiOutThreshold == <<One>>

\* self.lif_in = snn.Leaky(beta=beta_in, threshold=thr_in, ...)
MakeLifIn(beta_in, thr_in) == Leaky(beta_in, thr_in, DefaultResetMechanism)
\* self.lif_hidden = snn.Leaky(beta=beta_hidden, threshold=thr_hidden, ...)
MakeLifHidden(beta_hidden, thr_hidden) ==
    Leaky(beta_hidden, thr_hidden, DefaultResetMechanism)
\* self.li_out = snn.Leaky(beta=beta_out, threshold=1.0, ...,
\*                         reset_mechanism="none")
MakeLiOut(beta_out) == Leaky(beta_out, LiOutThreshold, LiOutResetMechanism)

\* A weight of fc_hidden: row 1 is (1, 1/2, 1/2, ...), the other rows are
\* (1/2, 0, 0, ...).
HiddenWeight == [i \in Neurons |-> IF i = 1 THEN Vec(One, Half) ELSE Vec(Half, Zero)]

\* No finished call is remembered.
NoCall == [x |-> <<>>, ok |-> FALSE, out |-> <<>>, remembered |-> FALSE,
           between |-> FALSE]

\* No call of forward has bound these yet.
Unbound == <<>>

FwdInit ==
    /\ pc = "idle"
    /\ x = <<>>
    /\ step = 0
    /\ mem_1 = Unbound /\ mem_2 = Unbound /\ mem_3 = Unbound
    /\ cur_in = Unbound /\ spk_in = Unbound
    /\ cur_hidden = Unbound /\ spk_hidden = Unbound
    /\ cur_out = Unbound /\ spk_out = Unbound
    /\ mem_3_rec = <<>>
    /\ result = <<>>
    /\ cur_out_rec = <<>>
    /\ seen = NoCall

CellIdle ==
    /\ cell_req = "unset"
    /\ cell = NoCell
    /\ cell_mem0 = Zero
    /\ cell_mem = Zero
    /\ cell_spk = Zero
    /\ cell_in = <<>>
    /\ cell_mem_rec = <<>>

NetInit ==
    /\ timesteps \in 0..MaxT
    /\ lif_in = MakeLifIn(Vec(Half, Quarter), Vec(Half, ThreeQuarters))
    /\ fc_in = [weight |-> Vec(One, Half), bias |-> Vec(Zero, Zero)]
    /\ lif_hidden = MakeLifHidden(Vec(Quarter, Half), Vec(Half, Quarter))
    /\ \E b \in {Vec(Zero, Zero), Vec(Zero, Half)} :
          fc_hidden = [weight |-> HiddenWeight, bias |-> b]
    /\ \E beta_out \in Betas : li_out = MakeLiOut(beta_out)
    /\ \E w \in {Vec(One, Half), Vec(Two, Half)}, b \in {<<Zero>>, <<Half>>} :
          fc_out = [weight |-> w, bias |-> b]

\* The notebook's training cell has not started.
NoLoss == [of |-> <<0, 0>>, value |-> Zero]

TrainIdle ==
    /\ dataset = <<>>
    /\ tpc = "idle"
    /\ epoch = 0
    /\ batch_idx = 0
    /\ feature = <<>> /\ label = <<>>
    /\ mem_val = <<>>
    /\ loss_val = NoLoss
    /\ grad = <<>>
    /\ loss_hist = <<>>
    /\ loss_epoch = <<>>
    /\ minibatch_counter = 0
    /\ mean_L1 = Zero
    /\ ops = <<>>
    /\ step_grad = <<>>
    /\ l1_vals = <<>>

Init == NetInit /\ FwdInit /\ CellIdle /\ TrainIdle

---------------------------------------------------------------------------
\* Net.forward

\* Mutant: the input stage calls li_out too.
Stage1CallsLiOut == li_out
\* The cell each stage of the loop body calls.
\* spk_in, mem_1 = self.lif_in(cur_in, mem_1)
CellOfStage1 == lif_in
\* spk_hidden, mem_2 = self.li_out(cur_hidden, mem_2)
CellOfStage2 == li_out
\* _, mem_3 = self.li_out(cur_out, mem_3)
CellOfStage3 == li_out

\* Mutant: the next stage's affine map is fed the previous stage's potential.
PassesPotential(out) == out.mem
\* What a stage hands to the affine map of the next stage, given its
\* [spk, mem]: self.fc_hidden(spk_in), self.fc_out(spk_hidden).
PassedOn(out) == out.spk

\* Mutant: the output stage's spike is recorded.
RecordedSpike(out) == out.spk
\* What one pass of the loop body appends to mem_3_rec, given the output
\* stage's [spk, mem].
Recorded(out) == out.mem

\* The inputs forward is called with: one number per time step.
Inputs == [1..timesteps -> XVals]

\* Mutant: the potentials are initialised once and then carried from call
\* to call.
CarriedPotentials ==
    IF pc = "idle"
    THEN [mem_1 |-> InitLeaky, mem_2 |-> InitLeaky, mem_3 |-> InitLeaky]
    ELSE [mem_1 |-> mem_1, mem_2 |-> mem_2, mem_3 |-> mem_3]
\* mem_1 = self.lif_in.init_leaky(), mem_2 = self.lif_hidden.init_leaky(),
\* mem_3 = self.li_out.init_leaky()
InitialPotentials == [mem_1 |-> InitLeaky, mem_2 |-> InitLeaky, mem_3 |-> InitLeaky]

\* A call of forward(x): the potentials are initialised and the list of
\* recorded outputs is emptied.
ForwardCall(xx) ==
    /\ pc \in {"idle", "done", "error"}
    /\ x' = xx
    /\ mem_1' = InitialPotentials.mem_1
    /\ mem_2' = InitialPotentials.mem_2
    /\ mem_3' = InitialPotentials.mem_3
    /\ mem_3_rec' = <<>>
    /\ cur_out_rec' = <<>>
    /\ step' = 0
    /\ cur_in' = Unbound /\ spk_in' = Unbound
    /\ cur_hidden' = Unbound /\ spk_hidden' = Unbound
    /\ cur_out' = Unbound /\ spk_out' = Unbound
    /\ result' = <<>>
    /\ pc' = "loop"
    /\ UNCHANGED <<netVars, seen, cellVars>>

\* One pass of the body of `for step in range(self.timesteps)`.
ForwardStep ==
    /\ pc = "loop"
    /\ step < timesteps
    /\ LET x_timestep == x[step + 1]
           c_in  == LinearIn(fc_in, x_timestep)
           s1    == LeakyForward(CellOfStage1, c_in, mem_1)
           c_hid == LinearHidden(fc_hidden, PassedOn(s1))
           s2    == LeakyForward(CellOfStage2, c_hid, mem_2)
           c_out == LinearOut(fc_out, PassedOn(s2))
           s3    == LeakyForward(CellOfStage3, c_out, mem_3)
       IN  /\ cur_in' = c_in
           /\ spk_in' = s1.spk
           /\ mem_1' = s1.mem
           /\ cur_hidden' = c_hid
           /\ spk_hidden' = s2.spk
           /\ mem_2' = s2.mem
           /\ cur_out' = c_out
           /\ spk_out' = s3.spk
           /\ mem_3' = s3.mem
           /\ mem_3_rec' = Append(mem_3_rec, Recorded(s3))
           /\ cur_out_rec' = Append(cur_out_rec, c_out[1])
    /\ step' = step + 1
    /\ UNCHANGED <<netVars, pc, x, result, seen, cellVars, trainVars>>

\* History: once no call is remembered, a finished call may be; a later
\* finished call with another input is noted in `between`.
Remember(ok, out) ==
    IF seen.remembered
    THEN {[seen EXCEPT !.between = seen.between \/ seen.x # x]}
    ELSE {seen, [x |-> x, ok |-> ok, out |-> out, remembered |-> TRUE,
                 between |-> FALSE]}

\* The list forward hands to torch.stack.
Stacked == mem_3_rec

\* return torch.stack(mem_3_rec): torch.stack raises RuntimeError ("stack
\* expects a non-empty TensorList") on the empty list.
ForwardReturn ==
    /\ pc = "loop"
    /\ step = timesteps
    /\ IF Stacked = <<>>
       THEN /\ pc' = "error"
            /\ result' = <<>>
            /\ seen' \in Remember(FALSE, <<>>)
       ELSE /\ pc' = "done"
            /\ result' = Stacked
            /\ seen' \in Remember(TRUE, Stacked)
    /\ UNCHANGED <<netVars, x, step, mem_1, mem_2, mem_3, cur_in, spk_in,
                   cur_hidden, spk_hidden, cur_out, spk_out, mem_3_rec,
                   cur_out_rec, cellVars, trainVars>>

Next ==
    \/ \E xx \in Inputs : ForwardCall(xx) /\ UNCHANGED trainVars
    \/ ForwardStep
    \/ ForwardReturn

Spec == Init /\ [][Next]_vars

---------------------------------------------------------------------------
\* A single Leaky cell, constructed with any reset mode and stepped on its
\* own: step(input_current, prev_potential) -> (spike, new_potential).

\* The reset_mechanism strings a constructor is tried with.
RequestedModes == ResetModes \cup {"bogus"}
\* Decay rates and thresholds as Net.__init__ draws them (torch.rand is in
\* [0, 1); li_out's threshold is 1.0).
CellBetas      == {Half, Quarter}
CellThresholds == {Zero, Half, One}
\* Potentials a cell is started from, and input currents it is fed.
CellStarts     == {Zero, One}
CellCurrents   == {Zero, Half, Two}

Constructed(c) == c # NoCell /\ c # ConfigError

CellConstruct(beta, threshold, mode, m0) ==
    /\ cell = NoCell
    /\ cell_req' = mode
    /\ cell' = Leaky(<<beta>>, <<threshold>>, mode)
    /\ cell_mem0' = m0
    /\ cell_mem' = m0
    /\ UNCHANGED <<cell_spk, cell_in, cell_mem_rec, netVars, fwdVars, trainVars>>

CellStep(cur) ==
    /\ Constructed(cell)
    /\ Len(cell_in) < MaxSteps
    /\ LET r == LeakyForward(cell, <<cur>>, <<cell_mem>>)
       IN  /\ cell_spk' = r.spk[1]
           /\ cell_mem' = r.mem[1]
           /\ cell_mem_rec' = Append(cell_mem_rec, r.mem[1])
    /\ cell_in' = Append(cell_in, cur)
    /\ UNCHANGED <<cell_req, cell, cell_mem0, netVars, fwdVars, trainVars>>

CellNext ==
    \/ \E beta \in CellBetas, threshold \in CellThresholds,
          mode \in RequestedModes, m0 \in CellStarts :
          CellConstruct(beta, threshold, mode, m0)
    \/ \E cur \in CellCurrents : CellStep(cur)

\* The network is built and left alone.
CellInit ==
    /\ timesteps = 0
    /\ lif_in = MakeLifIn(Vec(Half, Quarter), Vec(Half, ThreeQuarters))
    /\ fc_in = [weight |-> Vec(One, Half), bias |-> Vec(Zero, Zero)]
    /\ lif_hidden = MakeLifHidden(Vec(Quarter, Half), Vec(Half, Quarter))
    /\ fc_hidden = [weight |-> HiddenWeight, bias |-> Vec(Zero, Zero)]
    /\ li_out = MakeLiOut(<<Half>>)
    /\ fc_out = [weight |-> Vec(One, Half), bias |-> <<Zero>>]
    /\ FwdInit
    /\ CellIdle
    /\ TrainIdle

CellSpec == CellInit /\ [][CellNext]_vars

---------------------------------------------------------------------------
\* The training cell and the evaluation cell of the notebook, run once each
\* in this order.  The second evaluation loss of the cell (rel_err_lst,
\* mean_rel) and the progress bar are left out.

\* torch.linspace(start=0.0, end=end, steps=timesteps), entry t of 1..timesteps
Linspace(end, t) ==
    IF timesteps = 1 THEN Zero ELSE RDivInt(RMul(end, <<t - 1, 1>>), timesteps - 1)

\* The samples a dataset is drawn from: the feature is the line from 0 to
\* `end`, the label is 0 at the first step and `top` afterwards.
Sample(end, top) ==
    [feature |-> [t \in 1..timesteps |-> Linspace(end, t)],
     label   |-> [t \in 1..timesteps |-> IF t = 1 THEN Zero ELSE top]]
Samples == {Sample(Half, Half), Sample(ThreeQuarters, One)}

\* The datasets the dataloader walks: neighbouring samples differ.
Datasets ==
    {d \in [1..NumBatches -> Samples] :
        \A i \in 1..(NumBatches - 1) : d[i] # d[i + 1]}

\* The sum of the entries 1..n of a sequence of rationals.
RECURSIVE RSum(_, _)
RSum(v, n) == IF n = 0 THEN Zero ELSE RAdd(RSum(v, n - 1), v[n])

\* statistics.mean
Mean(v) == RDivInt(RSum(v, Len(v)), Len(v))

\* torch.nn.MSELoss()(m, l): the mean of the squared differences
MSELoss(m, l) ==
    Mean([t \in 1..Len(m) |-> RMul(RSub(m[t][1], l[t]), RSub(m[t][1], l[t]))])

\* torch.nn.L1Loss()(m, l): the mean of the absolute differences
L1Loss(m, l) == Mean([t \in 1..Len(m) |-> RAbs(RSub(m[t][1], l[t]))])

\* Mutant: the gradients are zeroed after the backward pass.
TrainOrderZeroAfterBackward ==
    <<"forward", "loss", "backward", "zero_grad", "step", "store">>
\* The statements of the body of `for feature, label in train_batch`, in
\* the order they are written.
TrainOrder == <<"forward", "loss", "zero_grad", "backward", "step", "store">>

\* The statement after statement s of the body; after the last, the loop
\* head.
After(s) ==
    LET i == CHOOSE j \in 1..Len(TrainOrder) : TrainOrder[j] = s
    IN  IF i = Len(TrainOrder) THEN "next_batch" ELSE TrainOrder[i + 1]

\* The batch the training loop is at.
ThisBatch == <<epoch, batch_idx>>

\* num_iter = 100, optimizer = Adam(...), loss_function = MSELoss(),
\* loss_hist = []
TrainCellStart ==
    /\ tpc = "train_cell"
    /\ loss_hist' = <<>>
    /\ epoch' = 0
    /\ tpc' = "epoch"
    /\ UNCHANGED <<netVars, fwdVars, cellVars, dataset, batch_idx, feature,
                   label, mem_val, loss_val, grad, loss_epoch,
                   minibatch_counter, mean_L1, ops, step_grad, l1_vals>>

\* for _ in pbar: train_batch = iter(dataloader), minibatch_counter = 0,
\* loss_epoch = []; after the last iteration the evaluation cell is run.
EpochHead ==
    /\ tpc = "epoch"
    /\ IF epoch < NumIter
       THEN /\ batch_idx' = 0
            /\ minibatch_counter' = 0
            /\ loss_epoch' = <<>>
            /\ tpc' = "next_batch"
       ELSE /\ tpc' = "eval_cell"
            /\ UNCHANGED <<batch_idx, minibatch_counter, loss_epoch>>
    /\ UNCHANGED <<netVars, fwdVars, cellVars, dataset, epoch, feature, label,
                   mem_val, loss_val, grad, loss_hist, mean_L1, ops, step_grad,
                   l1_vals>>

\* for feature, label in train_batch
NextBatch ==
    /\ tpc = "next_batch"
    /\ IF batch_idx < Len(dataset)
       THEN /\ feature' = dataset[batch_idx + 1].feature
            /\ label' = dataset[batch_idx + 1].label
            /\ batch_idx' = batch_idx + 1
            /\ ops' = <<>>
            /\ tpc' = TrainOrder[1]
            /\ UNCHANGED epoch
       ELSE /\ epoch' = epoch + 1
            /\ tpc' = "epoch"
            /\ UNCHANGED <<feature, label, batch_idx, ops>>
    /\ UNCHANGED <<netVars, fwdVars, cellVars, dataset, mem_val, loss_val, grad,
                   loss_hist, loss_epoch, minibatch_counter, mean_L1,
                   step_grad, l1_vals>>

\* mem = model(feature): the call of forward ...
TrainForwardCall ==
    /\ tpc = "forward"
    /\ ForwardCall(feature)
    /\ tpc' = "forward_wait"
    /\ UNCHANGED <<dataset, epoch, batch_idx, feature, label, mem_val, loss_val,
                   grad, loss_hist, loss_epoch, minibatch_counter, mean_L1,
                   ops, step_grad, l1_vals>>

\* ... and its return.
TrainForwardReturn ==
    /\ tpc = "forward_wait"
    /\ pc = "done"
    /\ mem_val' = result
    /\ ops' = Append(ops, "forward")
    /\ tpc' = After("forward")
    /\ UNCHANGED <<netVars, fwdVars, cellVars, dataset, epoch, batch_idx,
                   feature, label, loss_val, grad, loss_hist, loss_epoch,
                   minibatch_counter, mean_L1, step_grad, l1_vals>>

\* loss_val = loss_function(mem, label)
TrainLoss ==
    /\ tpc = "loss"
    /\ loss_val' = [of |-> ThisBatch, value |-> MSELoss(mem_val, label)]
    /\ ops' = Append(ops, "loss")
    /\ tpc' = After("loss")
    /\ UNCHANGED <<netVars, fwdVars, cellVars, dataset, epoch, batch_idx,
                   feature, label, mem_val, grad, loss_hist, loss_epoch,
                   minibatch_counter, mean_L1, step_grad, l1_vals>>

\* optimizer.zero_grad()
ZeroGrad ==
    /\ tpc = "zero_grad"
    /\ grad' = <<>>
    /\ ops' = Append(ops, "zero_grad")
    /\ tpc' = After("zero_grad")
    /\ UNCHANGED <<netVars, fwdVars, cellVars, dataset, epoch, batch_idx,
                   feature, label, mem_val, loss_val, loss_hist, loss_epoch,
                   minibatch_counter, mean_L1, step_grad, l1_vals>>

\* loss_val.backward(): the gradient of the loss is added to the .grad
\* fields.
Backward ==
    /\ tpc = "backward"
    /\ grad' = Append(grad, loss_val.of)
    /\ ops' = Append(ops, "backward")
    /\ tpc' = After("backward")
    /\ UNCHANGED <<netVars, fwdVars, cellVars, dataset, epoch, batch_idx,
                   feature, label, mem_val, loss_val, loss_hist, loss_epoch,
                   minibatch_counter, mean_L1, step_grad, l1_vals>>

\* optimizer.step(): Adam moves the learnable parameters along the
\* accumulated gradient; here the decay rate of li_out takes any value of
\* Betas.  With no gradient no parameter moves.
OptimizerStep ==
    /\ tpc = "step"
    /\ IF grad = <<>>
       THEN UNCHANGED li_out
       ELSE \E b \in Betas : li_out' = [li_out EXCEPT !.beta = b]
    /\ step_grad' = grad
    /\ ops' = Append(ops, "step")
    /\ tpc' = After("step")
    /\ UNCHANGED <<timesteps, fc_in, lif_in, fc_hidden, lif_hidden, fc_out,
                   fwdVars, cellVars, dataset, epoch, batch_idx, feature, label,
                   mem_val, loss_val, grad, loss_hist, loss_epoch,
                   minibatch_counter, mean_L1, l1_vals>>

\* loss_hist.append(loss_val.item()), loss_epoch.append(loss_val.item()),
\* minibatch_counter += 1
StoreLoss ==
    /\ tpc = "store"
    /\ loss_hist' = Append(loss_hist, loss_val.value)
    /\ loss_epoch' = Append(loss_epoch, loss_val.value)
    /\ minibatch_counter' = minibatch_counter + 1
    /\ ops' = Append(ops, "store")
    /\ tpc' = After("store")
    /\ UNCHANGED <<netVars, fwdVars, cellVars, dataset, epoch, batch_idx,
                   feature, label, mem_val, loss_val, grad, mean_L1, step_grad,
                   l1_vals>>

\* The evaluation cell: loss_function = L1Loss(), model.eval(),
\* test_batch = iter(dataloader), minibatch_counter = 0.  loss_hist is the
\* list the training cell filled.
EvalCellStart ==
    /\ tpc = "eval_cell"
    /\ batch_idx' = 0
    /\ minibatch_counter' = 0
    /\ tpc' = "eval_next"
    /\ UNCHANGED <<netVars, fwdVars, cellVars, dataset, epoch, feature, label,
                   mem_val, loss_val, grad, loss_hist, loss_epoch, mean_L1, ops,
                   step_grad, l1_vals>>

\* for feature, label in test_batch; after the last batch,
\* mean_L1 = statistics.mean(loss_hist)
EvalNext ==
    /\ tpc = "eval_next"
    /\ IF batch_idx < Len(dataset)
       THEN /\ feature' = dataset[batch_idx + 1].feature
            /\ label' = dataset[batch_idx + 1].label
            /\ batch_idx' = batch_idx + 1
            /\ tpc' = "eval_forward"
            /\ UNCHANGED mean_L1
       ELSE /\ mean_L1' = Mean(loss_hist)
            /\ tpc' = "finished"
            /\ UNCHANGED <<feature, label, batch_idx>>
    /\ UNCHANGED <<netVars, fwdVars, cellVars, dataset, epoch, mem_val, loss_val,
                   grad, loss_hist, loss_epoch, minibatch_counter, ops,
                   step_grad, l1_vals>>

\* mem = model(feature) in the evaluation loop: the call ...
EvalForwardCall ==
    /\ tpc = "eval_forward"
    /\ ForwardCall(feature)
    /\ tpc' = "eval_wait"
    /\ UNCHANGED <<dataset, epoch, batch_idx, feature, label, mem_val, loss_val,
                   grad, loss_hist, loss_epoch, minibatch_counter, mean_L1,
                   ops, step_grad, l1_vals>>

\* ... and, after its return, loss_val = loss_function(mem, label),
\* loss_hist.append(loss_val.item()), minibatch_counter += 1
EvalStore ==
    /\ tpc = "eval_wait"
    /\ pc = "done"
    /\ mem_val' = result
    /\ loss_val' = [of |-> <<NumIter, batch_idx>>, value |-> L1Loss(result, label)]
    /\ loss_hist' = Append(loss_hist, L1Loss(result, label))
    /\ l1_vals' = Append(l1_vals, L1Loss(result, label))
    /\ minibatch_counter' = minibatch_counter + 1
    /\ tpc' = "eval_next"
    /\ UNCHANGED <<netVars, fwdVars, cellVars, dataset, epoch, batch_idx,
                   feature, label, grad, loss_epoch, mean_L1, ops, step_grad>>

TrainNext ==
    \/ TrainCellStart
    \/ EpochHead
    \/ NextBatch
    \/ TrainForwardCall
    \/ ForwardStep
    \/ ForwardReturn
    \/ TrainForwardReturn
    \/ TrainLoss
    \/ ZeroGrad
    \/ Backward
    \/ OptimizerStep
    \/ StoreLoss
    \/ EvalCellStart
    \/ EvalNext
    \/ EvalForwardCall
    \/ EvalStore

\* The network is built over TrainT time steps, the dataset holds
\* NumBatches samples, and the training cell is about to run.
TrainInit ==
    /\ timesteps = TrainT
    /\ lif_in = MakeLifIn(Vec(Half, Quarter), Vec(Half, ThreeQuarters))
    /\ fc_in = [weight |-> Vec(One, Half), bias |-> Vec(Zero, Zero)]
    /\ lif_hidden = MakeLifHidden(Vec(Quarter, Half), Vec(Half, Quarter))
    /\ fc_hidden = [weight |-> HiddenWeight, bias |-> Vec(Zero, Zero)]
    /\ li_out = MakeLiOut(<<Half>>)
    /\ fc_out = [weight |-> Vec(One, Half), bias |-> <<Half>>]
    /\ FwdInit
    /\ CellIdle
    /\ dataset \in Datasets
    /\ tpc = "train_cell"
    /\ epoch = 0
    /\ batch_idx = 0
    /\ feature = <<>> /\ label = <<>>
    /\ mem_val = <<>>
    /\ loss_val = NoLoss
    /\ grad = <<>>
    /\ loss_hist = <<>>
    /\ loss_epoch = <<>>
    /\ minibatch_counter = 0
    /\ mean_L1 = Zero
    /\ ops = <<>>
    /\ step_grad = <<>>
    /\ l1_vals = <<>>

TrainSpec == TrainInit /\ [][TrainNext]_vars

---------------------------------------------------------------------------
\* Properties of Net.forward and of the Leaky cell.

\* p to the power k.
RECURSIVE RPow(_, _)
RPow(p, k) == IF k = 0 THEN One ELSE RMul(p, RPow(p, k - 1))

\* A pass of the loop body is taken in this step.
BodyRuns == pc = "loop" /\ step' = step + 1

\* C1: at every time step the hidden stage computes its spike and its new
\* potential with its own cell lif_hidden (its decay rate, threshold and
\* reset rule); li_out is used by the output stage only.
C1_HiddenStageUsesLifHidden ==
    [][BodyRuns =>
         LET own == LeakyForward(lif_hidden, cur_hidden', mem_2)
         IN  spk_hidden' = own.spk /\ mem_2' = own.mem]_vars

\* C2: every finished call of forward returned exactly `timesteps` recorded
\* outputs and raised no error, for every timesteps >= 0.
C2_ReturnsTimestepsOutputs ==
    pc \in {"done", "error"} => pc = "done" /\ Len(result) = timesteps

\* C3: every step of the output cell li_out (reset mode "none") yields
\* new potential = beta * previous potential + input current, whether or
\* not the potential reaches the threshold.
C3_NoResetStep ==
    [][BodyRuns =>
         /\ li_out.reset_mechanism = "none"
         /\ mem_3'[1] = RAdd(RMul(li_out.beta[1], mem_3[1]), cur_out'[1])]_vars

\* C3's case: the output potential has reached the threshold, the cell has
\* spiked, and the potential was not reset.
C3_Witness ==
    /\ pc = "loop" /\ step >= 2
    /\ spk_out = <<One>>
    /\ RGeq(mem_3[1], li_out.threshold[1])
    /\ mem_3_rec[step - 1] # mem_3

\* C4: every step of a cell with reset mode "subtract" (lif_in, built with
\* the default mode, as lif_hidden is) computes candidate = beta * previous
\* potential + input current; if candidate >= threshold it spikes and the
\* new potential is candidate - threshold, else no spike and the new
\* potential is the candidate.
C4_SubtractStep ==
    [][BodyRuns =>
         /\ lif_in.reset_mechanism = "subtract"
         /\ lif_hidden.reset_mechanism = "subtract"
         /\ \A i \in Neurons :
              LET candidate == RAdd(RMul(lif_in.beta[i], At(mem_1, i)),
                                    cur_in'[i])
              IN  IF RGeq(candidate, lif_in.threshold[i])
                  THEN /\ spk_in'[i] = One
                       /\ mem_1'[i] = RSub(candidate, lif_in.threshold[i])
                  ELSE /\ spk_in'[i] = Zero
                       /\ mem_1'[i] = candidate]_vars

\* C4's case: after a step, one input neuron has spiked with a potential
\* left above zero and another has not spiked.
C4_Witness ==
    /\ pc = "loop" /\ step >= 1
    /\ \E i, j \in Neurons :
          /\ spk_in[i] = One /\ mem_1[i] # Zero
          /\ spk_in[j] = Zero /\ mem_1[j] # Zero

\* C5: every step of a cell with reset mode "zero" computes candidate =
\* beta * previous potential + input current; the new potential is 0 if
\* candidate >= threshold and the candidate otherwise.
C5_ZeroStep ==
    (Constructed(cell) /\ cell_req = "zero") =>
        \A k \in 1..Len(cell_in) :
            LET prev      == IF k = 1 THEN cell_mem0 ELSE cell_mem_rec[k - 1]
                candidate == RAdd(RMul(cell.beta[1], prev), cell_in[k])
            IN  cell_mem_rec[k] =
                    IF RGeq(candidate, cell.threshold[1]) THEN Zero ELSE candidate

\* C5's case: a "zero" cell with a positive threshold has been reset to 0
\* from a candidate above the threshold, after a step that left it below.
C5_Witness ==
    /\ Constructed(cell) /\ cell_req = "zero"
    /\ cell.threshold = <<One>>
    /\ Len(cell_in) = 2
    /\ cell_mem_rec[1] = Half
    /\ cell_in[2] = Two
    /\ cell_mem = Zero /\ cell_spk = One

\* C6: every call of forward starts with the three potentials at zero, and
\* a call returns what an earlier call with the same input returned,
\* whatever calls were made in between.
C6_FreshAndRepeatable ==
    /\ (pc = "loop" /\ step = 0) =>
          mem_1 = <<Zero>> /\ mem_2 = <<Zero>> /\ mem_3 = <<Zero>>
    /\ (pc \in {"done", "error"} /\ seen.remembered /\ seen.x = x) =>
          seen.ok = (pc = "done") /\ seen.out = result

\* C6's case: a call has returned what an earlier call with the same input
\* returned, after a call with another input that left nonzero potentials.
C6_Witness ==
    /\ pc = "done" /\ timesteps >= 2
    /\ seen.remembered /\ seen.between /\ seen.x = x
    /\ seen.out = result
    /\ mem_3 # <<Zero>> /\ \E i \in Neurons : mem_1[i] # Zero

\* C7: the output cell li_out (reset mode "none", started at 0), driven by
\* a pulse I at step 0 and zero input afterwards, has potential beta^k * I
\* after step k; with beta = 1/2, threshold = 1 and inputs [2, 0, 0] the
\* potentials are [2, 1, 1/2].
C7_PulseDecay ==
    /\ (/\ Len(cur_out_rec) >= 1
        /\ \A j \in 2..Len(cur_out_rec) : cur_out_rec[j] = Zero)
       => \A k \in 1..Len(mem_3_rec) :
             mem_3_rec[k] = <<RMul(RPow(li_out.beta[1], k - 1), cur_out_rec[1])>>
    /\ (/\ li_out.beta = <<Half>> /\ li_out.threshold = <<One>>
        /\ cur_out_rec = <<Two, Zero, Zero>>)
       => mem_3_rec = << <<Two>>, <<One>>, <<Half>> >>

\* C7's case: the output cell with beta = 1/2 has been fed [2, 0, 0].
C7_Witness ==
    /\ li_out.beta = <<Half>> /\ li_out.threshold = <<One>>
    /\ li_out.reset_mechanism = "none"
    /\ cur_out_rec = <<Two, Zero, Zero>>
    /\ mem_3_rec = << <<Two>>, <<One>>, <<Half>> >>

\* C8: a cell of any reset mode started at potential 0 and fed zero input
\* at every step has potential 0 after every step.
C8_NoSpontaneousActivity ==
    (/\ Constructed(cell)
     /\ cell_mem0 = Zero
     /\ \A j \in 1..Len(cell_in) : cell_in[j] = Zero)
    => \A k \in 1..Len(cell_mem_rec) : cell_mem_rec[k] = Zero

\* C8's case: a "subtract" cell whose threshold is 0 spikes at potential 0
\* on zero input, three steps long.
C8_Witness ==
    /\ Constructed(cell) /\ cell_req = "subtract"
    /\ cell.threshold = <<Zero>>
    /\ cell_mem0 = Zero
    /\ cell_in = <<Zero, Zero, Zero>>
    /\ cell_spk = One
    /\ cell_mem = Zero

\* C9: constructing a cell with an unknown reset mode fails with the
\* configuration error; no cell with an invalid reset mode exists, and no
\* step of a constructed cell fails because of its reset mode.
C9_InvalidModeFailsAtConstruction ==
    /\ (cell_req \notin ResetModes \cup {"unset"}) =>
          cell = ConfigError /\ cell_in = <<>>
    /\ Constructed(cell) => cell.reset_mechanism \in ResetModes
    /\ cell_mem # StepError
    /\ \A k \in 1..Len(cell_mem_rec) : cell_mem_rec[k] # StepError

\* C9's case: a construction with an unknown reset mode has failed.
C9_Witness ==
    /\ cell_req = "bogus"
    /\ cell = ConfigError

\* C10: forward takes the steps 0..timesteps-1 in increasing order, each
\* once, step t on input x[t], and leaves the loop only after step
\* timesteps-1; element t of what it returns is the output stage's
\* potential (not its spike) right after step t.
C10_StepsInOrder ==
    [][/\ (pc = "loop" /\ pc' = "loop") =>
             /\ step < timesteps
             /\ step' = step + 1
             /\ cur_in' = LinearIn(fc_in, x[step + 1])
             /\ mem_3_rec' = Append(mem_3_rec, mem_3')
             /\ Len(mem_3_rec') = step'
       /\ (pc # "loop" /\ pc' = "loop") => step' = 0 /\ mem_3_rec' = <<>>
       /\ (pc = "loop" /\ pc' # "loop") =>
             /\ step = timesteps
             /\ Len(mem_3_rec) = timesteps
             /\ pc' = "done" => result' = mem_3_rec]_vars

\* C10's case: a call over three steps has returned three potentials, the
\* last of them different from the output cell's last spike.
C10_Witness ==
    /\ pc = "done" /\ timesteps = 3 /\ step = 3
    /\ Len(result) = 3
    /\ result[3] = mem_3 /\ result[3] # spk_out
    /\ result[1] # result[2] /\ result[2] # result[3]

\* The cells Net owns.
NetCells == {lif_in, lif_hidden, li_out}

\* C11: within a time step the stages run input, hidden, output: the
\* current of the hidden stage is fc_hidden of the input stage's spike of
\* this step, the current of the output stage is fc_out of the hidden
\* stage's spike of this step (never of a potential), and each stage's new
\* potential is a cell's step from that same stage's previous potential
\* (zero at step 0).
C11_StagesChained ==
    [][BodyRuns =>
         /\ step = 0 => mem_1 = <<Zero>> /\ mem_2 = <<Zero>> /\ mem_3 = <<Zero>>
         /\ cur_in' = LinearIn(fc_in, x[step + 1])
         /\ cur_hidden' = LinearHidden(fc_hidden, spk_in')
         /\ cur_out' = LinearOut(fc_out, spk_hidden')
         /\ \E c \in NetCells :
               LeakyForward(c, cur_in', mem_1) = [spk |-> spk_in', mem |-> mem_1']
         /\ \E c \in NetCells :
               LeakyForward(c, cur_hidden', mem_2) = [spk |-> spk_hidden', mem |-> mem_2']
         /\ \E c \in NetCells :
               LeakyForward(c, cur_out', mem_3) = [spk |-> spk_out', mem |-> mem_3']]_vars

\* C11's case: after a second step every stage holds a nonzero potential
\* of its own, the potentials of the first two stages differ from their
\* spikes and from each other, and a spike has been passed on to each later
\* stage.
C11_Witness ==
    /\ pc = "loop" /\ step >= 2
    /\ mem_1 # spk_in /\ mem_2 # spk_hidden /\ mem_1 # mem_2
    /\ \E i \in Neurons : mem_1[i] # Zero /\ spk_in[i] = One
    /\ \E i \in Neurons : mem_2[i] # Zero /\ spk_hidden[i] = One
    /\ mem_3 # <<Zero>>
    /\ cur_hidden # fc_hidden.bias
    /\ cur_out # fc_out.bias

\* C12: once the training cell and then the evaluation cell have run, the
\* value printed as 'Mean L1-loss' is the mean of the L1 losses of the
\* evaluation batches only, one per batch, none recorded during training.
C12_MeanOfEvaluationLosses ==
    tpc = "finished" =>
        /\ Len(l1_vals) = Len(dataset)
        /\ loss_hist = l1_vals
        /\ mean_L1 = Mean(l1_vals)

\* The statements of the training loop's body.
InTrainingBody == tpc \in {"forward", "forward_wait", "loss", "zero_grad",
                           "backward", "step", "store"}

\* C13: for every iteration and every batch the training loop runs forward
\* pass, loss, zero_grad, backward, optimizer step in this order: the
\* optimizer steps once per batch, on the gradient of that batch's loss
\* alone, and loss_hist grows by one entry per batch.
C13_TrainingOrder ==
    [][/\ (tpc = "step" /\ tpc' # "step") =>
             /\ ops = <<"forward", "loss", "zero_grad", "backward">>
             /\ loss_val.of = ThisBatch
             /\ grad = <<ThisBatch>>
       /\ step_grad' # step_grad => tpc = "step" /\ step_grad' = <<ThisBatch>>
       /\ (InTrainingBody /\ tpc' = "next_batch") =>
             /\ ops' = <<"forward", "loss", "zero_grad", "backward", "step",
                         "store">>
             /\ step_grad = <<ThisBatch>>
             /\ loss_hist' = Append(loss_hist, loss_val.value)
             /\ loss_val.value = MSELoss(mem_val, label)
             /\ Len(loss_hist') = epoch * Len(dataset) + batch_idx
       /\ (InTrainingBody /\ tpc' # "next_batch") => loss_hist' = loss_hist]_vars

\* C13's case: the last batch of the second iteration has been stored:
\* its optimizer step used this batch's gradient alone and moved a
\* parameter, and loss_hist holds one entry per batch so far.
C13_Witness ==
    /\ tpc = "next_batch" /\ epoch = 1 /\ batch_idx = 2
    /\ ops = <<"forward", "loss", "zero_grad", "backward", "step", "store">>
    /\ step_grad = <<<<1, 2>>>>
    /\ li_out.beta = <<Quarter>>
    /\ Len(loss_hist) = 4
    /\ loss_hist[3] # loss_hist[4]

===========================================================================
